---- MODULE Spec2Model ----
(***************************************************************************)
(* Model of imagepro.py: the resize subcommand (cmd_resize) and the        *)
(* resize pipeline (resize_image) with its dimension arithmetic, skip      *)
(* policy, colour-mode normalisation, destination naming and error paths.  *)
(***************************************************************************)
EXTENDS Integers, Sequences, FiniteSets, TLC

(***************************************************************************)
(* Bounds of the model.                                                    *)
(***************************************************************************)
MaxDim == 2
MaxLen == 2
MaxBigDim == 22

(***************************************************************************)
(* Python float arithmetic (IEEE-754 binary64, round to nearest, ties to   *)
(* even) as used by  int((size / orig_width) * orig_height).               *)
(* A positive float is [m |-> <<1, c1, c2, c3, c4>>, e |-> k]: the 53-bit  *)
(* significand as its leading 1 bit followed by four 13-bit limbs, most    *)
(* significant first, denoting                                             *)
(*   (2^52 + c1*2^39 + c2*2^26 + c3*2^13 + c4) * 2^e.                      *)
(***************************************************************************)
LimbBits == 13
Limbs == 4
MantBits == 1 + Limbs * LimbBits

RECURSIVE Pow2(_)
Pow2(n) == IF n = 0 THEN 1 ELSE 2 * Pow2(n - 1)

Base == Pow2(LimbBits)

\* Number of binary digits of n >= 1.
RECURSIVE BitLen(_)
BitLen(n) == IF n <= 1 THEN 1 ELSE 1 + BitLen(n \div 2)

\* Largest k >= 0 with den * 2^k <= num   (num >= den >= 1).
RECURSIVE LeadUp(_, _)
LeadUp(num, den) == IF 2 * den <= num THEN 1 + LeadUp(num, 2 * den) ELSE 0

\* Smallest j >= 0 with num * 2^j >= den   (num >= 1).
RECURSIVE LeadDown(_, _)
LeadDown(num, den) == IF num >= den THEN 0 ELSE 1 + LeadDown(2 * num, den)

\* The next n limbs of the quotient r/den (0 <= r < den), and the remainder.
RECURSIVE LongDiv(_, _, _, _)
LongDiv(r, den, n, acc) ==
    IF n = 0 THEN [limbs |-> acc, rem |-> r]
    ELSE LongDiv((r * Base) % den, den, n - 1,
                 Append(acc, (r * Base) \div den))

\* limbs + 1 with carry propagation; the result's head is the carry-out.
RECURSIVE IncLimbs(_)
IncLimbs(limbs) ==
    IF limbs = <<>> THEN <<1>>
    ELSE IF limbs[Len(limbs)] + 1 < Base
         THEN <<0>> \o Append(SubSeq(limbs, 1, Len(limbs) - 1),
                              limbs[Len(limbs)] + 1)
         ELSE Append(IncLimbs(SubSeq(limbs, 1, Len(limbs) - 1)), 0)

\* Round a kept significand <<1>> \o limbs: cmp is -1, 0, 1 as the discarded
\* part is below, equal to, or above half a unit in the last place.
RoundEven(limbs, e, cmp) ==
    LET up  == cmp > 0 \/ (cmp = 0 /\ limbs[Limbs] % 2 = 1)
        inc == IncLimbs(limbs)
    IN  IF ~up THEN [m |-> <<1>> \o limbs, e |-> e]
        ELSE IF inc[1] = 1
             THEN [m |-> <<1>> \o [k \in 1..Limbs |-> 0], e |-> e + 1]
             ELSE [m |-> <<1>> \o Tail(inc), e |-> e]

\* a / b for integers a, b >= 1: the correctly rounded quotient.
FloatDiv(a, b) ==
    LET up  == IF a >= b THEN LeadUp(a, b) ELSE 0
        dn  == IF a >= b THEN 0 ELSE LeadDown(a, b)
        num == a * Pow2(dn)
        den == b * Pow2(up)
        q   == LongDiv(num - den, den, Limbs, <<>>)
        cmp == IF 2 * q.rem > den THEN 1
               ELSE IF 2 * q.rem = den THEN 0 ELSE -1
    IN  RoundEven(q.limbs, (up - dn) - (MantBits - 1), cmp)

\* limbs * h + carry, folded from the least significant limb into acc; the
\* result's head is the carry-out.
RECURSIVE MulLimbs(_, _, _, _)
MulLimbs(limbs, h, carry, acc) ==
    IF limbs = <<>> THEN <<carry>> \o acc
    ELSE LET t == limbs[Len(limbs)] * h + carry
         IN  MulLimbs(SubSeq(limbs, 1, Len(limbs) - 1), h, t \div Base,
                      <<t % Base>> \o acc)

\* Shift <<top>> \o limbs right by d < LimbBits bits: the kept limbs (top
\* becomes 1) and the d bits shifted out.
ShiftRight(p, d) ==
    LET D == Pow2(d)
    IN  [limbs |-> [k \in 1..Limbs |->
                      ((p[k] % D) * Base + p[k + 1]) \div D],
         out   |-> p[Limbs + 1] % D]

\* f * h for a positive float f and an integer 1 <= h < 2^LimbBits,
\* correctly rounded.
FloatMul(f, h) ==
    LET q    == MulLimbs(Tail(f.m), h, 0, <<>>)
        p    == <<f.m[1] * h + q[1]>> \o Tail(q)
        drop == BitLen(p[1]) - 1
        s    == ShiftRight(p, drop)
        half == IF drop = 0 THEN 1 ELSE Pow2(drop - 1)
        cmp  == IF drop = 0 \/ s.out < half THEN -1
                ELSE IF s.out = half THEN 0 ELSE 1
    IN  RoundEven(s.limbs, f.e + drop, cmp)

\* Value of limbs in base 2^LimbBits, most significant first.
RECURSIVE LimbsToInt(_)
LimbsToInt(limbs) ==
    IF limbs = <<>> THEN 0
    ELSE Base * LimbsToInt(SubSeq(limbs, 1, Len(limbs) - 1))
         + limbs[Len(limbs)]

\* int(f): truncation of a positive float toward zero.
FloatTrunc(f) ==
    IF f.e >= 0 THEN LimbsToInt(f.m) * Pow2(f.e)
    ELSE IF -f.e >= MantBits THEN 0
    ELSE LimbsToInt(SubSeq(f.m, 1, Len(f.m) - ((-f.e) \div LimbBits)))
         \div Pow2((-f.e) % LimbBits)

\* int((size / orig) * other) as Python computes it (orig, other >= 1).
ScaleDim(size, orig, other) ==
    IF size = 0 THEN 0
    ELSE IF size > 0 THEN FloatTrunc(FloatMul(FloatDiv(size, orig), other))
    ELSE -FloatTrunc(FloatMul(FloatDiv(-size, orig), other))

(***************************************************************************)
(* Text.  A string is a sequence of one-character strings.                 *)
(***************************************************************************)
DigitChars == <<"0", "1", "2", "3", "4", "5", "6", "7", "8", "9">>

RECURSIVE StrNat(_)
StrNat(n) ==
    IF n < 10 THEN <<DigitChars[n + 1]>>
    ELSE Append(StrNat(n \div 10), DigitChars[(n % 10) + 1])

\* f"{n}" for an integer n.
Str(n) == IF n < 0 THEN <<"-">> \o StrNat(-n) ELSE StrNat(n)

DigitValue(c) == CHOOSE d \in 0..9 : DigitChars[d + 1] = c

IsDigit(c) == \E d \in 1..10 : DigitChars[d] = c

\* str.split(sep): the pieces of str between occurrences of sep.
RECURSIVE Split(_, _)
Split(str, sep) ==
    LET hits == {k \in 1..Len(str) : str[k] = sep}
    IN  IF hits = {} THEN <<str>>
        ELSE LET k == CHOOSE h \in hits : \A g \in hits : h <= g
             IN  <<SubSeq(str, 1, k - 1)>>
                 \o Split(SubSeq(str, k + 1, Len(str)), sep)

\* str.strip(): without leading and trailing blanks.
RECURSIVE Strip(_)
Strip(str) ==
    IF str = <<>> THEN str
    ELSE IF str[1] = " " THEN Strip(Tail(str))
    ELSE IF str[Len(str)] = " " THEN Strip(SubSeq(str, 1, Len(str) - 1))
    ELSE str

\* The digits of an integer literal after its optional sign.
LiteralBody(tok) ==
    IF tok # <<>> /\ tok[1] \in {"+", "-"} THEN Tail(tok) ELSE tok

\* int(tok) succeeds: an optional sign followed by at least one digit.
IsIntLiteral(tok) ==
    /\ LiteralBody(tok) # <<>>
    /\ \A k \in 1..Len(LiteralBody(tok)) : IsDigit(LiteralBody(tok)[k])

RECURSIVE NatOf(_)
NatOf(ds) ==
    IF ds = <<>> THEN 0
    ELSE 10 * NatOf(SubSeq(ds, 1, Len(ds) - 1)) + DigitValue(ds[Len(ds)])

\* int(tok) for an integer literal.
IntOf(tok) ==
    IF tok[1] = "-" THEN -NatOf(LiteralBody(tok)) ELSE NatOf(LiteralBody(tok))

\* Join strs with sep between them.
RECURSIVE Join(_, _)
Join(strs, sep) ==
    IF Len(strs) = 0 THEN <<>>
    ELSE IF Len(strs) = 1 THEN strs[1]
    ELSE strs[1] \o sep \o Join(Tail(strs), sep)

\* Index of the last "." of name, 0 if none.
LastDot(name) ==
    LET dots == {k \in 1..Len(name) : name[k] = "."}
    IN  IF dots = {} THEN 0
        ELSE CHOOSE d \in dots : \A g \in dots : g <= d

\* Path.suffix and Path.stem of a file name.
Suffix(name) ==
    IF 1 < LastDot(name) /\ LastDot(name) < Len(name)
    THEN SubSeq(name, LastDot(name), Len(name)) ELSE <<>>

Stem(name) ==
    IF 1 < LastDot(name) /\ LastDot(name) < Len(name)
    THEN SubSeq(name, 1, LastDot(name) - 1) ELSE name

(***************************************************************************)
(* parse_sizes and validate_jpeg.                                          *)
(***************************************************************************)
\* The stripped tokens of a comma-separated size string.
SizeTokens(size_str) ==
    [k \in 1..Len(Split(size_str, ",")) |-> Strip(Split(size_str, ",")[k])]

\* parse_sizes: ok with the parsed sizes, or not ok when a token is not an
\* integer or a size is not positive (argparse.ArgumentTypeError).
parse_sizes(size_str) ==
    LET toks == SizeTokens(size_str)
    IN  IF \E k \in 1..Len(toks) : ~IsIntLiteral(toks[k])
        THEN [ok |-> FALSE, sizes |-> <<>>]
        ELSE LET parsed == [k \in 1..Len(toks) |-> IntOf(toks[k])]
             IN  IF \E k \in 1..Len(parsed) : parsed[k] <= 0
                 THEN [ok |-> FALSE, sizes |-> <<>>]
                 ELSE [ok |-> TRUE, sizes |-> parsed]

valid_extensions ==
    { <<".", "j", "p", "g">>, <<".", "j", "p", "e", "g">>,
      <<".", "J", "P", "G">>, <<".", "J", "P", "E", "G">> }

validate_jpeg(name) == Suffix(name) \in valid_extensions

(***************************************************************************)
(* The per-target computations of resize_image.                            *)
(***************************************************************************)
\* Variant: a target equal to the original dimension counts as upscaling.
UpscaleOrEqual(size, orig) == size >= orig

\* The skip test: the target would require upscaling.
Upscale(size, orig) == size > orig

\* The original dimension the targets constrain.
OrigOnAxis(dim, w, h) == IF dim = "width" THEN w ELSE h

\* new_width, new_height for a target that is not skipped.
NewDims(size, dim, w, h) ==
    IF dim = "width"
    THEN [width |-> size, height |-> ScaleDim(size, w, h)]
    ELSE [width |-> ScaleDim(size, h, w), height |-> size]

\* The reason recorded with a skipped target.
SkipReason(dim, w, h) ==
    IF dim = "width"
    THEN <<"original is only ", Str(w), "px wide">>
    ELSE <<"original is only ", Str(h), "px tall">>

\* Variant: the target size is left out of the name.
OutputFilenameNoSize(name, size) == Stem(name) \o <<"_">> \o Suffix(name)

\* output_filename = f"{base_name}_{size}{extension}"
OutputFilename(name, size) == Stem(name) \o <<"_">> \o Str(size) \o Suffix(name)

OutputDir == <<"r", "e", "s", "i", "z", "e", "d">>

\* output_path = output_dir / output_filename
OutputPath(name, size) == <<OutputDir, OutputFilename(name, size)>>

\* A pixel buffer: its mode, its size and the operations that produced it.
\* img.resize keeps the mode of the source.
Resize(m, dims) ==
    [mode |-> m, width |-> dims.width, height |-> dims.height,
     ops |-> <<<<"resize">>>>]

\* Image.convert(mode)
Convert(buf, m) == [buf EXCEPT !.mode = m, !.ops = Append(@, <<"convert", m>>)]

\* Image.new('RGB', size, (255, 255, 255)) followed by
\* background.paste(src, mask): the result has the background's mode and size.
PasteOnWhite(src, mask) ==
    [mode |-> "RGB", width |-> src.width, height |-> src.height,
     ops |-> Append(src.ops, <<"paste_on_white", mask>>)]

FlattenModes == {"RGBA", "LA", "P"}

\* Variant: no conversion of the remaining non-RGB modes.
NormalizeNoConvert(buf) ==
    IF buf.mode \in FlattenModes
    THEN LET src  == IF buf.mode = "P" THEN Convert(buf, "RGBA") ELSE buf
             mask == IF src.mode \in {"RGBA", "LA"} THEN "alpha" ELSE "none"
         IN  PasteOnWhite(src, mask)
    ELSE buf

\* The buffer handed to save(): lines 100-108.
Normalize(buf) ==
    IF buf.mode \in FlattenModes
    THEN LET src  == IF buf.mode = "P" THEN Convert(buf, "RGBA") ELSE buf
             mask == IF src.mode \in {"RGBA", "LA"} THEN "alpha" ELSE "none"
         IN  PasteOnWhite(src, mask)
    ELSE IF buf.mode # "RGB" THEN Convert(buf, "RGB")
    ELSE buf

\* Image.resize raises ValueError unless both dimensions are positive.
Resizable(dims) == dims.width >= 1 /\ dims.height >= 1

KB == 1024

\* f"{size_kb:.0f}" of bytes / 1024 (exact in binary64): round half to even.
FormatKB(size_kb) ==
    LET q == size_kb.bytes \div KB
        r == size_kb.bytes % KB
    IN  Str(IF 2 * r > KB \/ (2 * r = KB /\ q % 2 = 1) THEN q + 1 ELSE q)

(***************************************************************************)
(* State.                                                                  *)
(***************************************************************************)
VARIABLES
    entry,          \* "cli": through cmd_resize; "direct": resize_image called
    input_name,     \* name of the source file
    args_width,     \* --width string (<<>>: absent or empty, both falsy)
    args_height,    \* --height string
    quality,        \* args.quality / the quality argument
    orig_width,     \* img.size of the source file
    orig_height,
    img_mode,       \* img.mode of the source file
    sizes,          \* the size list passed to resize_image
    dimension,      \* 'width' or 'height'
    pc,             \* position of the program
    i,              \* number of targets the loop has gone through
    created_files,
    skipped_sizes,
    files,          \* files in the output directory
    encoder_calls,  \* the save() calls made: buffer, path, options
    console,        \* lines printed, with stream and printing function
    exit_code,      \* process exit status, -1 while running
    exit_by,        \* the function that ended the process
    exc,            \* the uncaught exception, "" if none
    failed_at       \* positions whose resample/encode/write step failed

vars == <<entry, input_name, args_width, args_height, quality, orig_width,
          orig_height, img_mode, sizes, dimension, pc, i, created_files,
          skipped_sizes, files, encoder_calls, console, exit_code, exit_by,
          exc, failed_at>>

inputs == <<entry, input_name, args_width, args_height, quality, orig_width,
            orig_height, img_mode>>

(***************************************************************************)
(* Input domains.                                                          *)
(***************************************************************************)
Modes == {"RGB", "RGBA", "LA", "P", "L"}

InputNames ==
    { <<"a", ".", "j", "p", "g">>,
      <<"b", "_", "1", ".", "J", "P", "E", "G">>,
      <<"c", ".", "p", "n", "g">> }

SizeValues == (-1)..(MaxDim + 1)

SeqsUpTo(S, n) == UNION {[1..k -> S] : k \in 0..n}

Comma == <<",">>

\* Option strings given on the command line.
WidthArgs ==
    { <<>>,
      Str(2),
      Join(<<Str(1), Str(MaxDim)>>, Comma),
      Join(<<Str(MaxDim + 1), Str(MaxDim + 1)>>, Comma),
      Join(<<Str(MaxDim + 1), Str(1)>>, <<",", " ">>),
      Join(<<Str(2), Str(0)>>, Comma),
      Join(<<Str(-1), Str(1)>>, Comma),
      <<"x">> }

HeightArgs == { <<>>, Str(1), Str(MaxDim + 1), Join(<<Str(0), Str(1)>>, Comma) }

Qualities == {0, 90, 101}

DefaultQuality == 90

\* Encoded sizes in bytes the file system may report.
FileBytes == {1536}

NoArgs == args_width = <<>> /\ args_height = <<>>

Start ==
    /\ i = 0
    /\ created_files = <<>>
    /\ skipped_sizes = <<>>
    /\ files = {}
    /\ encoder_calls = <<>>
    /\ console = <<>>
    /\ exit_code = -1
    /\ exit_by = ""
    /\ exc = ""
    /\ failed_at = {}

InitCli ==
    /\ entry = "cli"
    /\ pc = "cmd_resize"
    /\ args_width \in WidthArgs
    /\ args_height \in HeightArgs
    /\ quality \in Qualities
    /\ sizes = <<>>
    /\ dimension = "width"

InitDirect ==
    /\ entry = "direct"
    /\ pc = "resize_image"
    /\ NoArgs
    /\ quality = DefaultQuality
    /\ dimension \in {"width", "height"}

Init ==
    /\ input_name \in InputNames
    /\ orig_width \in 1..MaxDim
    /\ orig_height \in 1..MaxDim
    /\ img_mode \in Modes
    /\ \/ InitCli
       \/ InitDirect /\ sizes \in SeqsUpTo(SizeValues, MaxLen)
                     /\ validate_jpeg(input_name)
    /\ Start

\* Large images, one target each: the range where float rounding shows.
InitDim ==
    /\ img_mode = "RGB"
    /\ \/ /\ InitCli
          /\ input_name \in InputNames
          /\ orig_width = MaxBigDim
          /\ orig_height = MaxBigDim
       \/ /\ InitDirect
          /\ input_name = <<"a", ".", "j", "p", "g">>
          /\ orig_width \in 1..MaxBigDim
          /\ orig_height \in 1..MaxBigDim
          /\ sizes \in {<<s>> : s \in 0..(MaxBigDim + 1)}
    /\ Start

(***************************************************************************)
(* Console and process helpers.                                            *)
(***************************************************************************)
Line(by, stream, text) == [by |-> by, stream |-> stream, text |-> text]

\* sys.exit(code) called in function by.
Exit(code, by) ==
    /\ pc' = "exited"
    /\ exit_code' = code
    /\ exit_by' = by

\* An exception leaves the program uncaught.
Raise(e) ==
    /\ pc' = "raised"
    /\ exc' = e
    /\ UNCHANGED <<exit_code, exit_by>>

Truthy(str) == str # <<>>

\* The option cmd_resize parses, when exactly one is given.
ChosenArg == IF Truthy(args_width) THEN args_width ELSE args_height

OneOption == Truthy(args_width) # Truthy(args_height)

pipeline == <<sizes, dimension, i, created_files, skipped_sizes, files,
              encoder_calls, failed_at>>

(***************************************************************************)
(* cmd_resize up to the call of resize_image (lines 127-181).              *)
(***************************************************************************)
\* Lines 132-134: the input file does not exist.
CmdNotFound ==
    /\ pc = "cmd_resize"
    /\ console' = Append(console, Line("cmd_resize", "stderr",
                         <<"Error: File not found: ", input_name>>))
    /\ Exit(3, "cmd_resize")
    /\ UNCHANGED <<inputs, pipeline, exc>>

\* Lines 137-140: the file is not a JPEG by its extension.
CmdNotJpeg ==
    /\ pc = "cmd_resize"
    /\ ~validate_jpeg(input_name)
    /\ console' = console \o
         << Line("cmd_resize", "stderr",
                 <<"Error: Unsupported format. Version 1.0 supports JPEG only.">>),
            Line("cmd_resize", "stderr",
                 <<"Supported extensions: .jpg, .jpeg, .JPG, .JPEG">>) >>
    /\ Exit(1, "cmd_resize")
    /\ UNCHANGED <<inputs, pipeline, exc>>

\* Lines 143-145 and 152-154: both options or neither.
CmdBadOptions ==
    /\ pc = "cmd_resize"
    /\ validate_jpeg(input_name)
    /\ ~OneOption
    /\ console' = Append(console, Line("cmd_resize", "stderr",
         IF Truthy(args_width)
         THEN <<"Error: Cannot specify both --width and --height">>
         ELSE <<"Error: Must specify either --width or --height">>))
    /\ Exit(2, "cmd_resize")
    /\ UNCHANGED <<inputs, pipeline, exc>>

\* Lines 148, 151: parse_sizes raises argparse.ArgumentTypeError.
CmdParseError ==
    /\ pc = "cmd_resize"
    /\ validate_jpeg(input_name)
    /\ OneOption
    /\ ~parse_sizes(ChosenArg).ok
    /\ Raise("ArgumentTypeError")
    /\ UNCHANGED <<inputs, pipeline, console>>

\* Lines 157-159: quality out of range.
CmdBadQuality ==
    /\ pc = "cmd_resize"
    /\ validate_jpeg(input_name)
    /\ OneOption
    /\ parse_sizes(ChosenArg).ok
    /\ ~(1 <= quality /\ quality <= 100)
    /\ console' = Append(console, Line("cmd_resize", "stderr",
                         <<"Error: Quality must be between 1-100">>))
    /\ Exit(2, "cmd_resize")
    /\ UNCHANGED <<inputs, pipeline, exc>>

\* Lines 162-167: the image cannot be opened.
CmdOpenFail ==
    /\ pc = "cmd_resize"
    /\ validate_jpeg(input_name)
    /\ OneOption
    /\ parse_sizes(ChosenArg).ok
    /\ 1 <= quality /\ quality <= 100
    /\ console' = Append(console, Line("cmd_resize", "stderr",
                         <<"Error: Cannot read image: ", input_name>>))
    /\ Exit(4, "cmd_resize")
    /\ UNCHANGED <<inputs, pipeline, exc>>

\* Lines 170-181: print the processing info and call resize_image.
CmdCallResize ==
    /\ pc = "cmd_resize"
    /\ validate_jpeg(input_name)
    /\ OneOption
    /\ parse_sizes(ChosenArg).ok
    /\ 1 <= quality /\ quality <= 100
    /\ console' = console \o
         << Line("cmd_resize", "stdout",
                 <<"Processing: ", input_name, " (", Str(orig_width), "x",
                   Str(orig_height), ")">>),
            Line("cmd_resize", "stdout", <<"Output directory: ", OutputDir>>),
            Line("cmd_resize", "stdout", <<>>) >>
    /\ dimension' = IF Truthy(args_width) THEN "width" ELSE "height"
    /\ sizes' = parse_sizes(ChosenArg).sizes
    /\ pc' = "resize_image"
    /\ UNCHANGED <<inputs, i, created_files, skipped_sizes, files,
                   encoder_calls, failed_at, exit_code, exit_by, exc>>

(***************************************************************************)
(* resize_image (lines 40-124).                                            *)
(***************************************************************************)
\* Lines 55-60: Image.open fails.
ResizeOpenFail ==
    /\ pc = "resize_image"
    /\ console' = console \o
         << Line("resize_image", "stderr",
                 <<"Error: Cannot read image: ", input_name>>),
            Line("resize_image", "stderr", <<"Details: ", "e">>) >>
    /\ Exit(4, "resize_image")
    /\ UNCHANGED <<inputs, pipeline, exc>>

\* Line 67: output_dir.mkdir raises.
ResizeMkdirFail ==
    /\ pc = "resize_image"
    /\ Raise("OSError")
    /\ UNCHANGED <<inputs, pipeline, console>>

\* Lines 56-74: the image opens, the directory exists, the lists are empty.
ResizeBegin ==
    /\ pc = "resize_image"
    /\ pc' = "loop"
    /\ i' = 0
    /\ created_files' = <<>>
    /\ skipped_sizes' = <<>>
    /\ UNCHANGED <<inputs, sizes, dimension, files, encoder_calls, failed_at,
                   console, exit_code, exit_by, exc>>

\* The target the loop is at.
size == sizes[i + 1]

new_dims == NewDims(size, dimension, orig_width, orig_height)

InLoop == pc = "loop" /\ i < Len(sizes)

\* The file save() leaves at path.
Written(path, buf, complete) ==
    [path |-> path, width |-> buf.width, height |-> buf.height,
     mode |-> buf.mode, quality |-> quality, complete |-> complete]

WriteFile(fs, f) == {g \in fs : g.path # f.path} \cup {f}

SaveCall(buf, path) ==
    [buffer |-> buf, path |-> path, format |-> "JPEG", quality |-> quality,
     optimize |-> TRUE]

\* The record appended for a created file (lines 116-122).
CreatedRecord(sz, dims, bytes) ==
    [path |-> OutputPath(input_name, sz),
     filename |-> OutputFilename(input_name, sz),
     width |-> dims.width, height |-> dims.height,
     size_kb |-> [bytes |-> bytes]]

\* The record appended for a skipped target (lines 81, 87).
SkippedRecord(sz) == <<sz, SkipReason(dimension, orig_width, orig_height)>>

\* Variant: a size already skipped is not recorded again.
LoopSkipOnce ==
    /\ InLoop
    /\ Upscale(size, OrigOnAxis(dimension, orig_width, orig_height))
    /\ skipped_sizes' =
         IF \E k \in 1..Len(skipped_sizes) : skipped_sizes[k][1] = size
         THEN skipped_sizes
         ELSE Append(skipped_sizes, SkippedRecord(size))
    /\ i' = i + 1
    /\ UNCHANGED <<inputs, sizes, dimension, pc, created_files, files,
                   encoder_calls, failed_at, console, exit_code, exit_by, exc>>

\* Lines 79-82, 86-88: the target is skipped.
LoopSkip ==
    /\ InLoop
    /\ Upscale(size, OrigOnAxis(dimension, orig_width, orig_height))
    /\ skipped_sizes' = Append(skipped_sizes, SkippedRecord(size))
    /\ i' = i + 1
    /\ UNCHANGED <<inputs, sizes, dimension, pc, created_files, files,
                   encoder_calls, failed_at, console, exit_code, exit_by, exc>>

\* Lines 83-122: the target is resized, normalised, saved and recorded.
LoopCreate ==
    /\ InLoop
    /\ ~Upscale(size, OrigOnAxis(dimension, orig_width, orig_height))
    /\ Resizable(new_dims)
    /\ \E bytes \in FileBytes :
         LET buf  == Normalize(Resize(img_mode, new_dims))
             path == OutputPath(input_name, size)
         IN  /\ encoder_calls' = Append(encoder_calls, SaveCall(buf, path))
             /\ files' = WriteFile(files, Written(path, buf, TRUE))
             /\ created_files' =
                  Append(created_files, CreatedRecord(size, new_dims, bytes))
    /\ i' = i + 1
    /\ UNCHANGED <<inputs, sizes, dimension, pc, skipped_sizes, failed_at,
                   console, exit_code, exit_by, exc>>

\* Variant: a failing target is dropped and the loop goes on.
LoopRaiseContinue ==
    /\ InLoop
    /\ ~Upscale(size, OrigOnAxis(dimension, orig_width, orig_height))
    /\ failed_at' = failed_at \cup {i + 1}
    /\ i' = i + 1
    /\ UNCHANGED <<inputs, sizes, dimension, pc, created_files, skipped_sizes,
                   files, encoder_calls, console, exit_code, exit_by, exc>>

\* Variant: a failing target is reported and ends the process, as a
\* failing open does.
LoopRaiseExit ==
    /\ InLoop
    /\ ~Upscale(size, OrigOnAxis(dimension, orig_width, orig_height))
    /\ console' = Append(console, Line("resize_image", "stderr",
                         <<"Error: Cannot write image: ", input_name>>))
    /\ Exit(4, "resize_image")
    /\ failed_at' = failed_at \cup {i + 1}
    /\ UNCHANGED <<inputs, sizes, dimension, i, created_files, skipped_sizes,
                   files, encoder_calls, exc>>

\* Lines 93-114 raise: resize (always when a dimension is below 1), save
\* (the file untouched or left incomplete) or getsize fails.
LoopRaise ==
    /\ InLoop
    /\ ~Upscale(size, OrigOnAxis(dimension, orig_width, orig_height))
    /\ \E stage \in {"resize", "save", "save_partial", "getsize"} :
         LET buf  == Normalize(Resize(img_mode, new_dims))
             path == OutputPath(input_name, size)
         IN  /\ ~Resizable(new_dims) => stage = "resize"
             /\ encoder_calls' =
                  IF stage = "resize" THEN encoder_calls
                  ELSE Append(encoder_calls, SaveCall(buf, path))
             /\ files' =
                  IF stage \in {"resize", "save"} THEN files
                  ELSE WriteFile(files,
                                 Written(path, buf, stage = "getsize"))
             /\ Raise(IF stage = "resize" /\ ~Resizable(new_dims)
                      THEN "ValueError" ELSE "OSError")
    /\ failed_at' = failed_at \cup {i + 1}
    /\ UNCHANGED <<inputs, sizes, dimension, i, created_files, skipped_sizes,
                   console>>

\* Line 124: return created_files, skipped_sizes.
ResizeReturn ==
    /\ pc = "loop"
    /\ i = Len(sizes)
    /\ pc' = "returned"
    /\ UNCHANGED <<inputs, pipeline, console, exit_code, exit_by, exc>>

(***************************************************************************)
(* cmd_resize after resize_image returned (lines 183-201).                 *)
(***************************************************************************)
CreatedLine(f) ==
    Line("cmd_resize", "stdout",
         <<"Created: ", f.filename, " (", Str(f.width), "x", Str(f.height),
           ", ", FormatKB(f.size_kb), " KB)">>)

SkippedLine(sk) ==
    Line("cmd_resize", "stdout", <<"Skipped ", Str(sk[1]), "px: ", sk[2]>>)

Blank == Line("cmd_resize", "stdout", <<>>)

Report ==
    [k \in 1..Len(created_files) |-> CreatedLine(created_files[k])]
    \o (IF skipped_sizes # <<>>
        THEN <<Blank>> \o [k \in 1..Len(skipped_sizes) |->
                             SkippedLine(skipped_sizes[k])]
        ELSE <<>>)
    \o <<Blank>>

\* Variant: no created file is an error exit.
CmdReportError ==
    /\ pc = "returned"
    /\ entry = "cli"
    /\ IF created_files # <<>>
       THEN /\ console' = console \o Report \o
                 << Line("cmd_resize", "stdout",
                         <<"Successfully created ",
                           Str(Len(created_files)), " image(s) from ",
                           input_name>>) >>
            /\ pc' = "done"
            /\ exit_code' = 0
            /\ exit_by' = "main"
       ELSE /\ console' = console \o Report \o
                 << Line("cmd_resize", "stderr",
                         <<"Error: No images created">>) >>
            /\ Exit(1, "cmd_resize")
    /\ UNCHANGED <<inputs, pipeline, exc>>

\* Lines 183-201: print the results and the summary.
CmdReport ==
    /\ pc = "returned"
    /\ entry = "cli"
    /\ IF created_files # <<>>
       THEN /\ console' = console \o Report \o
                 << Line("cmd_resize", "stdout",
                         <<"Successfully created ",
                           Str(Len(created_files)), " image(s) from ",
                           input_name>>) >>
            /\ pc' = "done"
            /\ exit_code' = 0
            /\ exit_by' = "main"
       ELSE /\ console' = console \o Report \o
                 << Line("cmd_resize", "stdout",
                         <<"Warning: No images created (all sizes would require upscaling)">>) >>
            /\ Exit(0, "cmd_resize")
    /\ UNCHANGED <<inputs, pipeline, exc>>

Next ==
    \/ CmdNotFound
    \/ CmdNotJpeg
    \/ CmdBadOptions
    \/ CmdParseError
    \/ CmdBadQuality
    \/ CmdOpenFail
    \/ CmdCallResize
    \/ ResizeOpenFail
    \/ ResizeMkdirFail
    \/ ResizeBegin
    \/ LoopSkip
    \/ LoopCreate
    \/ LoopRaise
    \/ ResizeReturn
    \/ CmdReport

Spec == Init /\ [][Next]_vars

SpecDim == InitDim /\ [][Next]_vars

(***************************************************************************)
(* Vocabulary of the properties.                                           *)
(***************************************************************************)
axis_orig == OrigOnAxis(dimension, orig_width, orig_height)

other_orig == IF dimension = "width" THEN orig_height ELSE orig_width

\* The dimension of a created record on the chosen axis and off it.
AxisDim(rec) == IF dimension = "width" THEN rec.width ELSE rec.height

DerivedDim(rec) == IF dimension = "width" THEN rec.height ELSE rec.width

CreatedTargets == [k \in 1..Len(created_files) |-> AxisDim(created_files[k])]

SkippedTargets == [k \in 1..Len(skipped_sizes) |-> skipped_sizes[k][1]]

Range(seq) == {seq[k] : k \in 1..Len(seq)}

IsSkippedValue(s) == s \in Range(SkippedTargets)

IsCreatedValue(s) == s \in Range(CreatedTargets)

\* resize_image has returned its two lists.
Returned == pc = "returned" \/ pc = "done" \/ (pc = "exited" /\ exit_code = 0)

\* The target the loop is at is feasible.
AtFeasible == InLoop /\ 1 <= size /\ size <= axis_orig

AllExceed == \A k \in 1..Len(sizes) : sizes[k] > axis_orig

LinesBy(f) == SelectSeq(console, LAMBDA l : l.by = f)

(***************************************************************************)
(* C1.  When resize_image has returned, the created and the skipped        *)
(* records together are as many as the input sizes, and the targets of     *)
(* the created records and of the skipped records are two complementary    *)
(* subsequences of the input list: every input size has exactly one        *)
(* record, in input order within its list.                                 *)
(***************************************************************************)
C1_PartitionInOrder ==
    Returned =>
        /\ Len(created_files) + Len(skipped_sizes) = Len(sizes)
        /\ SkippedTargets = SelectSeq(sizes, IsSkippedValue)
        /\ CreatedTargets = SelectSeq(sizes, IsCreatedValue)
        /\ \A k \in 1..Len(sizes) : IsSkippedValue(sizes[k]) # IsCreatedValue(sizes[k])

\* A returned run whose list repeats a size that was skipped.
C1_Witness ==
    /\ pc = "returned"
    /\ Len(sizes) >= 2
    /\ \E j, k \in 1..Len(sizes) : j # k /\ sizes[j] = sizes[k]
    /\ skipped_sizes # <<>>

(***************************************************************************)
(* C2.  A target the loop has gone through is in skipped_sizes, with the   *)
(* reason naming the original dimension on the chosen axis, and not in     *)
(* created_files exactly when it is greater than that dimension; no        *)
(* record of either list is on the wrong side, and a target equal to the   *)
(* original dimension is created.                                          *)
(***************************************************************************)
C2_SkipIffUpscale ==
    /\ \A k \in 1..Len(skipped_sizes) :
         /\ skipped_sizes[k][1] > axis_orig
         /\ skipped_sizes[k][2] =
              <<"original is only ", Str(axis_orig),
                IF dimension = "width" THEN "px wide" ELSE "px tall">>
    /\ \A k \in 1..Len(created_files) : AxisDim(created_files[k]) <= axis_orig
    /\ \A k \in 1..i :
         /\ (IsSkippedValue(sizes[k]) /\ ~IsCreatedValue(sizes[k]))
              <=> sizes[k] > axis_orig
         /\ sizes[k] = axis_orig => IsCreatedValue(sizes[k])

\* A returned run with a target equal to the original dimension and a
\* target above it.
C2_Witness ==
    /\ pc = "returned"
    /\ \E k \in 1..Len(sizes) : sizes[k] = axis_orig
    /\ \E k \in 1..Len(sizes) : sizes[k] > axis_orig
    /\ created_files # <<>>
    /\ skipped_sizes # <<>>

(***************************************************************************)
(* C3.  For a feasible target (positive, not above the original dimension  *)
(* on the axis) both dimensions computed by resize_image are at least 1.   *)
(***************************************************************************)
C3_FeasibleDimsPositive ==
    AtFeasible => new_dims.width >= 1 /\ new_dims.height >= 1

(***************************************************************************)
(* C4.  For a feasible target the dimension on the axis is the target and  *)
(* the other one is floor(target * orthogonal / constrained), so it is     *)
(* less than one pixel away from the exact aspect-preserving value; a      *)
(* target equal to the original dimension gives the original size.         *)
(***************************************************************************)
C4_DerivedIsExactFloor ==
    AtFeasible =>
        /\ AxisDim(new_dims) = size
        /\ DerivedDim(new_dims) = (size * other_orig) \div axis_orig
        /\ DerivedDim(new_dims) * axis_orig <= size * other_orig
        /\ size * other_orig < (DerivedDim(new_dims) + 1) * axis_orig
        /\ size = axis_orig =>
             new_dims.width = orig_width /\ new_dims.height = orig_height

RequestedSizes ==
    IF entry = "direct" THEN sizes
    ELSE IF OneOption
            /\ \A k \in 1..Len(SizeTokens(ChosenArg)) :
                 IsIntLiteral(SizeTokens(ChosenArg)[k])
         THEN [k \in 1..Len(SizeTokens(ChosenArg)) |->
                 IntOf(SizeTokens(ChosenArg)[k])]
         ELSE <<>>

C6_NonPositiveRejectedWhole ==
    (\E k \in 1..Len(RequestedSizes) : RequestedSizes[k] <= 0) =>
        /\ files = {}
        /\ encoder_calls = <<>>
        /\ created_files = <<>>
        /\ skipped_sizes = <<>>

(***************************************************************************)
(* C7.  Every buffer handed to the encoder is in mode RGB and has the      *)
(* dimensions computed for its target; it was produced from the resized    *)
(* source by pasting on white for RGBA and LA, by expanding to RGBA and    *)
(* then pasting on white for P, by no operation for RGB, and by a direct   *)
(* conversion to RGB for every other mode.                                 *)
(***************************************************************************)
\* The dimensions computed for the target of the k-th save() call.
SavedDims(k) ==
    IF k <= Len(created_files)
    THEN [width |-> created_files[k].width, height |-> created_files[k].height]
    ELSE new_dims

C7_EncoderGetsRGB ==
    \A k \in 1..Len(encoder_calls) :
        LET b == encoder_calls[k].buffer
        IN  /\ b.mode = "RGB"
            /\ b.width = SavedDims(k).width
            /\ b.height = SavedDims(k).height
            /\ b.width >= 1 /\ b.height >= 1
            /\ img_mode \in {"RGBA", "LA"} =>
                 b.ops = << <<"resize">>, <<"paste_on_white", "alpha">> >>
            /\ img_mode = "P" =>
                 b.ops = << <<"resize">>, <<"convert", "RGBA">>,
                            <<"paste_on_white", "alpha">> >>
            /\ img_mode = "RGB" => b.ops = << <<"resize">> >>
            /\ img_mode \notin {"RGBA", "LA", "P", "RGB"} =>
                 b.ops = << <<"resize">>, <<"convert", "RGB">> >>

\* A variant of a source in a mode outside RGB, RGBA, LA and P was saved.
C7_Witness ==
    /\ created_files # <<>>
    /\ Len(encoder_calls) = Len(created_files)
    /\ img_mode = "L"

(***************************************************************************)
(* C8.  The name of a variant is the base name, "_", the target size and   *)
(* the extension of the source: two created records have the same name     *)
(* exactly when their targets are equal, equal targets give equal          *)
(* dimensions, and with no failure the output directory holds one file     *)
(* per distinct created target, a repeated target overwriting its file;    *)
(* distinct sizes, created or not, have distinct names.                    *)
(***************************************************************************)
C8_NameBySizeOnly ==
    /\ \A k \in 1..Len(created_files) :
         /\ created_files[k].filename =
              Stem(input_name) \o <<"_">> \o Str(CreatedTargets[k])
                \o Suffix(input_name)
         /\ \E f \in files : f.path = created_files[k].path
    /\ \A j, k \in 1..Len(created_files) :
         /\ (created_files[j].filename = created_files[k].filename)
              <=> (CreatedTargets[j] = CreatedTargets[k])
         /\ CreatedTargets[j] = CreatedTargets[k] =>
              /\ created_files[j].width = created_files[k].width
              /\ created_files[j].height = created_files[k].height
    /\ failed_at = {} => Cardinality(files) = Cardinality(Range(CreatedTargets))
    /\ Cardinality({OutputFilename(input_name, a) : a \in SizeValues})
         = Cardinality(SizeValues)

\* A duplicated target: two created records with one name and one file.
C8_Witness ==
    /\ pc = "returned"
    /\ Len(created_files) = 2
    /\ created_files[1].filename = created_files[2].filename
    /\ Cardinality(files) = 1

(***************************************************************************)
(* C9.  When every target exceeds the original dimension on the axis,      *)
(* resize_image does not fail in its loop and returns an empty created     *)
(* list and as many skipped records as sizes, nothing is written, and      *)
(* cmd_resize ends with exit status 0 after the 'No images created'        *)
(* warning.                                                                *)
(***************************************************************************)
NoImagesWarning ==
    Line("cmd_resize", "stdout",
         <<"Warning: No images created (all sizes would require upscaling)">>)

C9_AllSkippedIsNoError ==
    AllExceed =>
        /\ failed_at = {}
        /\ created_files = <<>>
        /\ files = {}
        /\ encoder_calls = <<>>
        /\ Returned => Len(skipped_sizes) = Len(sizes)
        /\ (entry = "cli" /\ sizes # <<>> /\ pc \in {"done", "exited"}
              /\ i = Len(sizes)) =>
             /\ pc = "exited"
             /\ exit_code = 0
             /\ exit_by = "cmd_resize"
             /\ console[Len(console)] = NoImagesWarning
             /\ \A k \in 1..Len(console) : console[k].stream = "stdout"

\* cmd_resize has ended after a run in which every target was skipped.
C9_Witness ==
    /\ entry = "cli"
    /\ Len(sizes) >= 2
    /\ AllExceed
    /\ pc = "exited"
    /\ Len(skipped_sizes) = Len(sizes)

(***************************************************************************)
(* C10.  Once the resample, encode or write step of the target at          *)
(* position p has failed, the run is an uncaught exception for good: the   *)
(* loop stands at p, nothing is recorded for p or any later target, no     *)
(* file of a target met only after p exists, the lists are never returned  *)
(* and cmd_resize reports no result.                                       *)
(***************************************************************************)
C10_FailureAbortsBatch ==
    \A p \in failed_at :
        /\ pc = "raised"
        /\ exc \in {"ValueError", "OSError"}
        /\ exit_code = -1
        /\ failed_at = {p}
        /\ i = p - 1
        /\ Len(created_files) + Len(skipped_sizes) = p - 1
        /\ Len(encoder_calls) <= Len(created_files) + 1
        /\ \A f \in files :
             \E k \in 1..p : f.path = OutputPath(input_name, sizes[k])
        /\ \A k \in 1..Len(console) :
             console[k].text = <<>> \/ console[k].text[1] \in
               {"Processing: ", "Output directory: "}

\* A target that could be resized failed with targets still to come.
C10_Witness ==
    /\ failed_at # {}
    /\ pc = "raised"
    /\ exc = "OSError"
    /\ i + 1 < Len(sizes)
    /\ \E k \in (i + 2)..Len(sizes) : 1 <= sizes[k] /\ sizes[k] <= axis_orig

====
